---- MODULE Spec2Model ----
(***************************************************************************)
(* A model of the low level GraphQL client of package graphql              *)
(* (src/graphql.go): the Request builder (NewRequest, Var, File, Header)   *)
(* and Client.Run with its two encoding paths, runWithJSON and             *)
(* runWithPostFields.                                                      *)
(*                                                                         *)
(* One Request is built, run once and then replaced by the next Request;   *)
(* the Client is constructed once (Init) and reused.  Run blocks in        *)
(* httpClient.Do: the model splits Run at that point, so that the context  *)
(* can be cancelled while the call is in flight.                            *)
(***************************************************************************)
EXTENDS Integers, Sequences, FiniteSets, TLC

(***************************************************************************)
(* Bounds and input domains                                                *)
(***************************************************************************)
\* Builder calls (Var, File, Header.Set, Header.Add) made on one Request.
MaxCalls == 3

http_StatusOK == 200

Endpoints == {"http://srv/graphql", "http://bad host"}
Queries == {"query {}", "mutation { upload }"}
Keys == {"username", "id"}
\* "<chan>" stands for a Go value encoding/json cannot encode (a channel).
Unencodable == "<chan>"
Values == {"matryer", "x", Unencodable}
\* The arguments of File: field name, file name and the reader's behaviour
\* (the bytes it yields, and whether reading it ends in an error).
FileArgs ==
  { [Field |-> "file", Name |-> "filename.txt", data |-> "This is a file", broken |-> FALSE],
    [Field |-> "doc",  Name |-> "b.bin",        data |-> "\\x00\\x01",       broken |-> FALSE],
    [Field |-> "file", Name |-> "broken.txt",   data |-> "This is",        broken |-> TRUE] }
HeaderArgs ==
  { <<"X-Custom-Header", "123">>, <<"content-type", "text/plain">>, <<"Accept", "*/*">> }
\* context.Context: not done, cancelled, or past its deadline.
CtxStates == {"active", "canceled", "deadline"}
\* The destination handed to Run: nil, or a pointer to a zero value.
NilResp == "<nil>"
ZeroResp == "<zero>"
StatusCodes == {200, 400, 500}
Absent == "<absent>"
JNull == "<null>"
\* A data payload of a JSON type the destination cannot take.
BadType == "<string for struct>"
DataFields == {Absent, JNull, "some data", BadType}
ErrorsFields ==
  { [present |-> FALSE, null |-> FALSE, list |-> <<>>],
    [present |-> TRUE,  null |-> TRUE,  list |-> <<>>],
    [present |-> TRUE,  null |-> FALSE, list |-> <<>>],
    [present |-> TRUE,  null |-> FALSE, list |-> <<[Message |-> "bad"]>>],
    [present |-> TRUE,  null |-> FALSE, list |-> <<[Message |-> "bad"], [Message |-> "worse"]>>],
    [present |-> TRUE,  null |-> FALSE, list |-> <<[Message |-> ""], [Message |-> "bad"]>>] }
NoErrorsField == [present |-> FALSE, null |-> FALSE, list |-> <<>>]
\* Response bodies: text that is not JSON, a body whose read fails, the JSON
\* literal null, an object.
Bodies ==
  { [kind |-> "invalid", data |-> Absent, errors |-> NoErrorsField],
    [kind |-> "unreadable", data |-> Absent, errors |-> NoErrorsField],
    [kind |-> "null",    data |-> Absent, errors |-> NoErrorsField] }
  \cup { [kind |-> "object", data |-> d, errors |-> e] : d \in DataFields, e \in ErrorsFields }
NoBody == [kind |-> "none", data |-> Absent, errors |-> NoErrorsField]
\* What httpClient.Do returns: a response (err empty) or an error.
Responses == { [err |-> "", StatusCode |-> s, Body |-> b] : s \in StatusCodes, b \in Bodies }
NoResponse == [err |-> "", StatusCode |-> 0, Body |-> NoBody]

EmptyMap == [k \in {} |-> ""]
\* http.Header: header names (canonical, as Set and Add store them) to values.
EmptyHeader == [k \in {} |-> <<>>]

VARIABLES
  client,     \* the Client: endpoint, httpClient, useMultipartForm, Log
  req,        \* the Request under construction or in use: q, vars, files, Header
  readers,    \* the io.Reader objects the files refer to (File.R indexes them)
  varsSet,    \* history: the last value passed to Var for each key
  ncalls,     \* history: builder calls made on this Request
  pc,         \* "build", "inflight" (blocked in httpClient.Do), "done"
  ctx,        \* the context passed to Run
  resp,       \* the destination passed to Run and what it holds
  sent,       \* the HTTP requests handed to httpClient.Do by this Run
  res,        \* the HTTP response Do returned
  ret,        \* what Run returned
  conc        \* concurrent Runs on the one Client: the Client as constructed
              \* and, per goroutine, the state of its Run (SpecConc only)

vars == <<client, req, readers, varsSet, ncalls, pc, ctx, resp, sent, res, ret, conc>>

(***************************************************************************)
(* Errors                                                                  *)
(***************************************************************************)
NotReturned == [kind |-> "none", msg |-> ""]
Nil == [kind |-> "nil", msg |-> ""]
Err(m) == [kind |-> "error", msg |-> m]
\* A nil pointer dereference: Run does not return, the goroutine panics.
Panic(m) == [kind |-> "panic", msg |-> m]

\* ctx.Err()
CtxErr(c) ==
  CASE c = "canceled" -> "context canceled"
    [] c = "deadline" -> "context deadline exceeded"
    [] OTHER -> ""

\* Mutant of graphErr.Error: the prefix is left out.
graphErr_ErrorNoPrefix(e) == e.Message

graphErr_Error(e) == "graphql: " \o e.Message

(***************************************************************************)
(* Client construction                                                     *)
(***************************************************************************)
\* The options of NewClient: UseMultipartForm(), WithHTTPClient(h), h possibly nil.
ClientOptions ==
  { [opt |-> "UseMultipartForm", arg |-> ""],
    [opt |-> "WithHTTPClient", arg |-> "testClient"],
    [opt |-> "WithHTTPClient", arg |-> "nil"] }

NewClient(endpoint, opts) ==
  LET given == { o.arg : o \in { x \in opts : x.opt = "WithHTTPClient" } }
      h == IF "testClient" \in given THEN "testClient" ELSE "nil"
  IN  [ endpoint |-> endpoint,
        httpClient |-> IF h = "nil" THEN "http.DefaultClient" ELSE h,
        useMultipartForm |-> \E o \in opts : o.opt = "UseMultipartForm",
        Log |-> "func(string) {}" ]

(***************************************************************************)
(* Request builder                                                         *)
(***************************************************************************)
NewRequest(q) ==
  [ q |-> q, varsNil |-> TRUE, vars |-> EmptyMap, files |-> <<>>, Header |-> EmptyHeader ]

Var(r, key, value) ==
  [ r EXCEPT !.varsNil = FALSE,
             !.vars = [k \in DOMAIN r.vars \cup {key} |-> IF k = key THEN value ELSE r.vars[k]] ]

\* Mutant: the new attachment is put in front of the others.
FilePrepends(r, fieldname, filename, rd) ==
  [ r EXCEPT !.files = <<[Field |-> fieldname, Name |-> filename, R |-> rd]>> \o @ ]

\* File appends; rd is the index of the reader object.
File(r, fieldname, filename, rd) ==
  [ r EXCEPT !.files = Append(@, [Field |-> fieldname, Name |-> filename, R |-> rd]) ]

Vars(r) == r.vars
Files(r) == r.files
Query(r) == r.q

\* textproto.CanonicalMIMEHeaderKey on the header names used here.
CanonicalMIMEHeaderKey(k) ==
  CASE k = "content-type" -> "Content-Type"
    [] k = "accept" -> "Accept"
    [] OTHER -> k

\* http.Header.Set and http.Header.Add
HeaderSet(h, key, value) ==
  LET K == CanonicalMIMEHeaderKey(key)
  IN  [k \in DOMAIN h \cup {K} |-> IF k = K THEN <<value>> ELSE h[k]]

HeaderAdd(h, key, value) ==
  LET K == CanonicalMIMEHeaderKey(key)
  IN  [k \in DOMAIN h \cup {K} |->
         IF k = K THEN (IF K \in DOMAIN h THEN Append(h[K], value) ELSE <<value>>)
         ELSE h[k]]

(***************************************************************************)
(* Encoding (encoding/json, mime/multipart, io)                            *)
(***************************************************************************)
NoJSON == [t |-> "none", members |-> EmptyMap]

\* json.Encoder on a map[string]any: a nil map is null, any other an object.
EncodableMap(m) == \A k \in DOMAIN m : m[k] # Unencodable

\* Mutant: a nil map is encoded as the empty object.
JSONOfMapNilAsObject(isNil, m) == [t |-> "object", members |-> m]

JSONOfMap(isNil, m) ==
  IF isNil THEN [t |-> "null", members |-> EmptyMap]
  ELSE [t |-> "object", members |-> m]

FieldPart(name, raw, json) ==
  [kind |-> "field", name |-> name, filename |-> "", raw |-> raw, json |-> json]

FilePart(name, filename, content) ==
  [kind |-> "file", name |-> name, filename |-> filename, raw |-> content, json |-> NoJSON]

\* Mutant: the part is created but the reader is never copied into it.
ReadToEndSkipped(rd) == [out |-> "", err |-> "", rd |-> rd]

\* io.Copy(part, r): the reader is read until it reports EOF or an error.
ReadToEnd(rd) ==
  [ out |-> IF rd.eof THEN "" ELSE rd.data,
    err |-> IF rd.broken THEN "unexpected EOF" ELSE "",
    rd  |-> [rd EXCEPT !.reads = @ + 1, !.eof = TRUE] ]

\* for i := range req.files { CreateFormFile; io.Copy }, from file i on.
RECURSIVE CopyFiles(_, _, _, _)
CopyFiles(files, rds, i, parts) ==
  IF i > Len(files) THEN [err |-> "", parts |-> parts, readers |-> rds]
  ELSE LET f == files[i]
           r == ReadToEnd(rds[f.R])
           rds2 == [rds EXCEPT ![f.R] = r.rd]
       IN  IF r.err # ""
           THEN [err |-> "preparing file: " \o r.err, parts |-> parts, readers |-> rds2]
           ELSE CopyFiles(files, rds2, i + 1, Append(parts, FilePart(f.Field, f.Name, r.out)))

\* url.Parse inside http.NewRequest, on the endpoints used here.
URLParseError(endpoint) ==
  IF endpoint = "http://bad host"
  THEN "parse \"http://bad host\": invalid character \" \" in host name"
  ELSE ""

\* for key, values := range req.Header { for _, value := range values { r.Header.Add } }
\* Mutant: r.Header.Set in the loop, so the last value replaces what is there.
AddValuesBySet(h, key, values) ==
  IF values = <<>> THEN h ELSE HeaderSet(h, key, values[Len(values)])

RECURSIVE AddValues(_, _, _)
AddValues(h, key, values) ==
  IF values = <<>> THEN h
  ELSE AddValues(HeaderAdd(h, key, Head(values)), key, Tail(values))

RECURSIVE MergeHeader(_, _, _)
MergeHeader(h, reqHeader, keys) ==
  IF keys = {} THEN h
  ELSE LET key == CHOOSE x \in keys : TRUE
       IN  MergeHeader(AddValues(h, key, reqHeader[key]), reqHeader, keys \ {key})

JSONContentType == "application/json; charset=utf-8"
\* writer.FormDataContentType(); the boundary is random, one stands for all.
FormDataContentType == "multipart/form-data; boundary=4f1c9a"

\* Mutant: the request goes through http.DefaultClient, not c.httpClient.
HTTPRequestDefaultClient(c, contentType, rq, body) ==
  [ via |-> "http.DefaultClient",
    Method |-> "POST",
    URL |-> c.endpoint,
    Header |-> MergeHeader(
                 HeaderSet(HeaderSet(EmptyHeader, "Content-Type", contentType),
                           "Accept", JSONContentType),
                 rq.Header, DOMAIN rq.Header),
    Body |-> body ]

HTTPRequest(c, contentType, rq, body) ==
  [ via |-> c.httpClient,
    Method |-> "POST",
    URL |-> c.endpoint,
    Header |-> MergeHeader(
                 HeaderSet(HeaderSet(EmptyHeader, "Content-Type", contentType),
                           "Accept", JSONContentType),
                 rq.Header, DOMAIN rq.Header),
    Body |-> body ]

NoRequest ==
  [ via |-> "", Method |-> "", URL |-> "", Header |-> EmptyHeader,
    Body |-> [enc |-> "none", query |-> "", variables |-> NoJSON, parts |-> <<>>] ]

Returned(e, rds) == [returned |-> TRUE, err |-> e, request |-> NoRequest, readers |-> rds]
Sending(r, rds) == [returned |-> FALSE, err |-> "", request |-> r, readers |-> rds]

(***************************************************************************)
(* Run, up to the call of httpClient.Do                                    *)
(***************************************************************************)
runWithJSON(c, rq, rds) ==
  IF ~EncodableMap(rq.vars)
  THEN Returned("encode body: json: unsupported type: chan int", rds)
  ELSE IF URLParseError(c.endpoint) # ""
  THEN Returned(URLParseError(c.endpoint), rds)
  ELSE Sending(HTTPRequest(c, JSONContentType, rq,
                 [ enc |-> "json", query |-> rq.q,
                   variables |-> JSONOfMap(rq.varsNil, rq.vars), parts |-> <<>> ]), rds)

runWithPostFields(c, rq, rds) ==
  LET queryPart == <<FieldPart("query", rq.q, NoJSON)>>
      hasVars == Cardinality(DOMAIN rq.vars) > 0
      withVars == IF hasVars
                  THEN Append(queryPart, FieldPart("variables", "", JSONOfMap(FALSE, rq.vars)))
                  ELSE queryPart
      copied == CopyFiles(rq.files, rds, 1, withVars)
  IN  IF hasVars /\ ~EncodableMap(rq.vars)
      THEN Returned("encode variables: json: unsupported type: chan int", rds)
      ELSE IF copied.err # ""
      THEN Returned(copied.err, copied.readers)
      ELSE IF URLParseError(c.endpoint) # ""
      THEN Returned(URLParseError(c.endpoint), copied.readers)
      ELSE Sending(HTTPRequest(c, FormDataContentType, rq,
                     [ enc |-> "multipart", query |-> "", variables |-> NoJSON,
                       parts |-> copied.parts ]), copied.readers)

\* Mutants of Run: the files check before the context check; no files check.
RunFilesCheckFirst(c, cx, rq, rds) ==
  IF Len(rq.files) > 0 /\ ~c.useMultipartForm
  THEN Returned("cannot send files with PostFields option", rds)
  ELSE IF cx # "active" THEN Returned(CtxErr(cx), rds)
  ELSE IF c.useMultipartForm THEN runWithPostFields(c, rq, rds)
  ELSE runWithJSON(c, rq, rds)

RunNoFilesCheck(c, cx, rq, rds) ==
  IF cx # "active" THEN Returned(CtxErr(cx), rds)
  ELSE IF c.useMultipartForm THEN runWithPostFields(c, rq, rds)
  ELSE runWithJSON(c, rq, rds)

Run(c, cx, rq, rds) ==
  IF cx # "active" THEN Returned(CtxErr(cx), rds)
  ELSE IF Len(rq.files) > 0 /\ ~c.useMultipartForm
  THEN Returned("cannot send files with PostFields option", rds)
  ELSE IF c.useMultipartForm THEN runWithPostFields(c, rq, rds)
  ELSE runWithJSON(c, rq, rds)

(***************************************************************************)
(* Run, after httpClient.Do has returned                                   *)
(***************************************************************************)
NilPointerDereference == "runtime error: invalid memory address or nil pointer dereference"

\* json.NewDecoder(&buf).Decode(&gr), gr = &graphResponse{Data: resp}.
\* The data field is decoded through the Data interface into the
\* destination itself; the literal null at top level sets gr to nil.
\* Mutant: the envelope is decoded into a value of its own, and the
\* destination is written only when the envelope carries no errors.
DecodeDataUnlessErrors(body, dest) ==
  CASE body.kind = "invalid" ->
         [ err |-> "invalid character 'I' looking for beginning of value",
           grNil |-> FALSE, Errors |-> <<>>, dest |-> dest ]
    [] body.kind = "null" ->
         [ err |-> "", grNil |-> TRUE, Errors |-> <<>>, dest |-> dest ]
    [] OTHER ->
         [ err |-> IF body.data = BadType /\ dest # NilResp
                   THEN "json: cannot unmarshal string into Go struct field graphResponse.Data of type struct { Value string }"
                   ELSE "",
           grNil |-> FALSE,
           Errors |-> body.errors.list,
           dest |-> IF body.data \in {Absent, JNull, BadType} \/ dest = NilResp
                       \/ Len(body.errors.list) > 0
                    THEN dest ELSE body.data ]

Decode(body, dest) ==
  CASE body.kind = "invalid" ->
         [ err |-> "invalid character 'I' looking for beginning of value",
           grNil |-> FALSE, Errors |-> <<>>, dest |-> dest ]
    [] body.kind = "null" ->
         [ err |-> "", grNil |-> TRUE, Errors |-> <<>>, dest |-> dest ]
    [] OTHER ->
         [ err |-> IF body.data = BadType /\ dest # NilResp
                   THEN "json: cannot unmarshal string into Go struct field graphResponse.Data of type struct { Value string }"
                   ELSE "",
           grNil |-> FALSE,
           Errors |-> body.errors.list,
           dest |-> IF body.data \in {Absent, JNull, BadType} \/ dest = NilResp
                    THEN dest ELSE body.data ]

StatusCodeError(code) ==
  "graphql: server returned a non-200 status code: " \o ToString(code)

Received(r, dest) == [ret |-> r, dest |-> dest]

\* Mutant of the JSON path: the status code is consulted before decoding.
runWithJSONResponseStatusFirst(rs, dest) ==
  IF rs.err # "" THEN Received(Err(rs.err), dest)
  ELSE IF rs.Body.kind = "unreadable"
  THEN Received(Err("reading body: unexpected EOF"), dest)
  ELSE IF rs.StatusCode # http_StatusOK
  THEN Received(Err(StatusCodeError(rs.StatusCode)), dest)
  ELSE LET d == Decode(rs.Body, dest)
       IN  IF d.err # "" THEN Received(Err("decoding response: " \o d.err), d.dest)
           ELSE IF d.grNil THEN Received(Panic(NilPointerDereference), d.dest)
           ELSE IF Len(d.Errors) > 0
           THEN Received(Err(graphErr_Error(d.Errors[1])), d.dest)
           ELSE Received(Nil, d.dest)

runWithJSONResponse(rs, dest) ==
  IF rs.err # "" THEN Received(Err(rs.err), dest)
  ELSE IF rs.Body.kind = "unreadable"
  THEN Received(Err("reading body: unexpected EOF"), dest)
  ELSE LET d == Decode(rs.Body, dest)
       IN  IF d.err # ""
           THEN IF rs.StatusCode # http_StatusOK
                THEN Received(Err(StatusCodeError(rs.StatusCode)), d.dest)
                ELSE Received(Err("decoding response: " \o d.err), d.dest)
           ELSE IF d.grNil THEN Received(Panic(NilPointerDereference), d.dest)
           ELSE IF Len(d.Errors) > 0
           THEN Received(Err(graphErr_Error(d.Errors[1])), d.dest)
           ELSE Received(Nil, d.dest)

\* Mutant of the multipart path: a decode failure is reported as such,
\* whatever the status code.
runWithPostFieldsResponseNoStatus(rs, dest) ==
  IF rs.err # "" THEN Received(Err(rs.err), dest)
  ELSE IF rs.Body.kind = "unreadable"
  THEN Received(Err("reading body: unexpected EOF"), dest)
  ELSE LET d == Decode(rs.Body, dest)
       IN  IF d.err # "" THEN Received(Err("decoding response: " \o d.err), d.dest)
           ELSE IF d.grNil THEN Received(Panic(NilPointerDereference), d.dest)
           ELSE IF Len(d.Errors) > 0
           THEN Received(Err(graphErr_Error(d.Errors[1])), d.dest)
           ELSE Received(Nil, d.dest)

runWithPostFieldsResponse(rs, dest) ==
  IF rs.err # "" THEN Received(Err(rs.err), dest)
  ELSE IF rs.Body.kind = "unreadable"
  THEN Received(Err("reading body: unexpected EOF"), dest)
  ELSE LET d == Decode(rs.Body, dest)
       IN  IF d.err # ""
           THEN IF rs.StatusCode # http_StatusOK
                THEN Received(Err(StatusCodeError(rs.StatusCode)), d.dest)
                ELSE Received(Err("decoding response: " \o d.err), d.dest)
           ELSE IF d.grNil THEN Received(Panic(NilPointerDereference), d.dest)
           ELSE IF Len(d.Errors) > 0
           THEN Received(Err(graphErr_Error(d.Errors[1])), d.dest)
           ELSE Received(Nil, d.dest)

\* *url.Error, the error type of http.Client.Do
URLError(url, inner) == "Post \"" \o url \o "\": " \o inner

\* No goroutine runs beside the one of the sequential specification.
NoConc == [client0 |-> NewClient("", {}), call |-> [i \in {} |-> 0]]

Init ==
  /\ client \in { NewClient(e, o) : e \in Endpoints, o \in SUBSET ClientOptions }
  /\ req \in { NewRequest(q) : q \in Queries }
  /\ readers = <<>>
  /\ varsSet = EmptyMap
  /\ ncalls = 0
  /\ pc = "build"
  /\ ctx = "active"
  /\ resp = NilResp
  /\ sent = <<>>
  /\ res = NoResponse
  /\ ret = NotReturned
  /\ conc = NoConc

CallVar ==
  /\ pc = "build"
  /\ ncalls < MaxCalls
  /\ \E k \in Keys, v \in Values :
       /\ req' = Var(req, k, v)
       /\ varsSet' = [x \in DOMAIN varsSet \cup {k} |-> IF x = k THEN v ELSE varsSet[x]]
  /\ ncalls' = ncalls + 1
  /\ UNCHANGED <<conc, client, readers, pc, ctx, resp, sent, res, ret>>

CallFile ==
  /\ pc = "build"
  /\ ncalls < MaxCalls
  /\ \E f \in FileArgs :
       /\ readers' = Append(readers, [data |-> f.data, broken |-> f.broken, reads |-> 0, eof |-> FALSE])
       /\ req' = File(req, f.Field, f.Name, Len(readers) + 1)
  /\ ncalls' = ncalls + 1
  /\ UNCHANGED <<conc, client, varsSet, pc, ctx, resp, sent, res, ret>>

CallHeaderSet ==
  /\ pc = "build"
  /\ ncalls < MaxCalls
  /\ \E a \in HeaderArgs : req' = [req EXCEPT !.Header = HeaderSet(@, a[1], a[2])]
  /\ ncalls' = ncalls + 1
  /\ UNCHANGED <<conc, client, readers, varsSet, pc, ctx, resp, sent, res, ret>>

CallHeaderAdd ==
  /\ pc = "build"
  /\ ncalls < MaxCalls
  /\ \E a \in HeaderArgs : req' = [req EXCEPT !.Header = HeaderAdd(@, a[1], a[2])]
  /\ ncalls' = ncalls + 1
  /\ UNCHANGED <<conc, client, readers, varsSet, pc, ctx, resp, sent, res, ret>>

\* client.Run(ctx, req, resp) up to the point where it blocks in Do.
RunCall ==
  /\ pc = "build"
  /\ \E cx \in CtxStates, dest \in {NilResp, ZeroResp} :
       LET out == Run(client, cx, req, readers)
       IN  /\ ctx' = cx
           /\ resp' = dest
           /\ readers' = out.readers
           /\ IF out.returned
              THEN /\ pc' = "done"
                   /\ ret' = Err(out.err)
                   /\ sent' = sent
              ELSE /\ pc' = "inflight"
                   /\ ret' = ret
                   /\ sent' = Append(sent, out.request)
  /\ UNCHANGED <<conc, client, req, varsSet, ncalls, res>>

\* The context is cancelled, or its deadline passes, while Do is blocked.
CancelCtx ==
  /\ pc = "inflight"
  /\ ctx = "active"
  /\ ctx' \in {"canceled", "deadline"}
  /\ UNCHANGED <<conc, client, req, readers, varsSet, ncalls, pc, resp, sent, res, ret>>

\* What Run does with the result rs of Do, in the mode of the Client.
AfterDo(rs) ==
  LET got == IF client.useMultipartForm
             THEN runWithPostFieldsResponse(rs, resp)
             ELSE runWithJSONResponse(rs, resp)
  IN  /\ res' = rs
      /\ ret' = got.ret
      /\ resp' = got.dest
      /\ pc' = "done"

\* Do returns an error: the context's once it is done, a connection error otherwise.
DoFails ==
  /\ pc = "inflight"
  /\ AfterDo([ err |-> URLError(client.endpoint,
                         IF ctx # "active" THEN CtxErr(ctx) ELSE "dial tcp: connection refused"),
               StatusCode |-> 0, Body |-> NoBody ])
  /\ UNCHANGED <<conc, client, req, readers, varsSet, ncalls, ctx, sent>>

\* Do returns a response; Run reads the body, decodes it and returns.
DoReturns ==
  /\ pc = "inflight"
  /\ ctx = "active"
  /\ \E rs \in Responses : AfterDo(rs)
  /\ UNCHANGED <<conc, client, req, readers, varsSet, ncalls, ctx, sent>>

\* The Request is discarded and the next one is made: req := NewRequest(q).
NextRequest ==
  /\ pc = "done"
  /\ req' \in { NewRequest(q) : q \in Queries }
  /\ readers' = <<>>
  /\ varsSet' = EmptyMap
  /\ ncalls' = 0
  /\ pc' = "build"
  /\ ctx' = "active"
  /\ resp' = NilResp
  /\ sent' = <<>>
  /\ res' = NoResponse
  /\ ret' = NotReturned
  /\ UNCHANGED <<conc, client>>

Next ==
  \/ CallVar
  \/ CallFile
  \/ CallHeaderSet
  \/ CallHeaderAdd
  \/ RunCall
  \/ CancelCtx
  \/ DoFails
  \/ DoReturns
  \/ NextRequest

Spec == Init /\ [][Next]_vars

(***************************************************************************)
(* Concurrent Runs on one shared Client                                    *)
(*                                                                         *)
(* Two goroutines call Run on the same Client, each with a Request, a      *)
(* context and a destination of its own, and their steps interleave.       *)
(***************************************************************************)
Goroutines == {"g1", "g2"}

FreshReader(data, broken) == [data |-> data, broken |-> broken, reads |-> 0, eof |-> FALSE]

\* The Requests the goroutines bring, built before Run with the builder methods.
ConcRequests ==
  { [ req |-> NewRequest("query {}"), readers |-> <<>> ],
    [ req |-> [ Var(Var(NewRequest("query {}"), "username", "matryer"), "id", "x")
                  EXCEPT !.Header = HeaderSet(@, "X-Custom-Header", "123") ],
      readers |-> <<>> ],
    [ req |-> File(NewRequest("mutation { upload }"), "file", "filename.txt", 1),
      readers |-> <<FreshReader("This is a file", FALSE)>> ] }

\* The results of Do the goroutines may see.
ConcResponses ==
  { [err |-> "", StatusCode |-> 200,
     Body |-> [kind |-> "object", data |-> "some data", errors |-> NoErrorsField]],
    [err |-> "", StatusCode |-> 200,
     Body |-> [kind |-> "object", data |-> "some data",
               errors |-> [present |-> TRUE, null |-> FALSE, list |-> <<[Message |-> "bad"]>>]]],
    [err |-> "", StatusCode |-> 500,
     Body |-> [kind |-> "invalid", data |-> Absent, errors |-> NoErrorsField]] }

\* A goroutine that has its Request and has not called Run yet.
ReadyCall(r) ==
  [ req |-> r.req, readers |-> r.readers, pc |-> "ready",
    cx0 |-> "active", ctx |-> "active", dest0 |-> NilResp, resp |-> NilResp,
    sent |-> <<>>, res |-> NoResponse, ret |-> NotReturned ]

\* Mutant: Run switches the Client to multipart when the Request has files.
ClientAfterRunAutoMultipart(c, rq) ==
  [c EXCEPT !.useMultipartForm = @ \/ Len(rq.files) > 0]

\* The Client after a Run on it: Run and its two paths read c.endpoint,
\* c.httpClient, c.useMultipartForm and c.Log and assign none of them.
ClientAfterRun(c, rq) == c

InitConc ==
  /\ client \in { NewClient(e, o) : e \in Endpoints, o \in SUBSET ClientOptions }
  /\ conc \in { [client0 |-> client, call |-> [g \in Goroutines |-> ReadyCall(f[g])]] :
                  f \in [Goroutines -> ConcRequests] }
  /\ req = NewRequest("")
  /\ readers = <<>>
  /\ varsSet = EmptyMap
  /\ ncalls = 0
  /\ pc = "concurrent"
  /\ ctx = "active"
  /\ resp = NilResp
  /\ sent = <<>>
  /\ res = NoResponse
  /\ ret = NotReturned

ConcFrame == UNCHANGED <<req, readers, varsSet, ncalls, pc, ctx, resp, sent, res, ret>>

\* Goroutine g calls client.Run(ctx, req, resp) and runs up to Do.
ConcRunCall(g) ==
  LET c == conc.call[g]
  IN  /\ c.pc = "ready"
      /\ \E cx \in CtxStates, dest \in {NilResp, ZeroResp} :
           LET out == Run(client, cx, c.req, c.readers)
           IN  conc' = [conc EXCEPT !.call[g] =
                 [ c EXCEPT !.cx0 = cx, !.ctx = cx, !.dest0 = dest, !.resp = dest,
                            !.readers = out.readers,
                            !.pc = IF out.returned THEN "done" ELSE "inflight",
                            !.ret = IF out.returned THEN Err(out.err) ELSE c.ret,
                            !.sent = IF out.returned THEN c.sent
                                     ELSE Append(c.sent, out.request) ]]
      /\ client' = ClientAfterRun(client, c.req)
      /\ ConcFrame

\* The context of goroutine g is cancelled while its Do is blocked.
ConcCancelCtx(g) ==
  LET c == conc.call[g]
  IN  /\ c.pc = "inflight"
      /\ c.ctx = "active"
      /\ \E cx \in {"canceled", "deadline"} :
           conc' = [conc EXCEPT !.call[g].ctx = cx]
      /\ UNCHANGED client
      /\ ConcFrame

\* What the Run of goroutine g does with the result rs of Do; it is inside
\* runWithJSON or runWithPostFields, as the request it sent tells.
ConcAfterDo(g, rs) ==
  LET c == conc.call[g]
      got == IF c.sent[1].Body.enc = "multipart"
             THEN runWithPostFieldsResponse(rs, c.resp)
             ELSE runWithJSONResponse(rs, c.resp)
  IN  /\ conc' = [conc EXCEPT !.call[g] =
                    [c EXCEPT !.res = rs, !.ret = got.ret, !.resp = got.dest, !.pc = "done"]]
      /\ client' = ClientAfterRun(client, c.req)
      /\ ConcFrame

ConcDoFails(g) ==
  /\ conc.call[g].pc = "inflight"
  /\ ConcAfterDo(g, [ err |-> URLError(client.endpoint,
                               IF conc.call[g].ctx # "active" THEN CtxErr(conc.call[g].ctx)
                               ELSE "dial tcp: connection refused"),
                      StatusCode |-> 0, Body |-> NoBody ])

ConcDoReturns(g) ==
  /\ conc.call[g].pc = "inflight"
  /\ conc.call[g].ctx = "active"
  /\ \E rs \in ConcResponses : ConcAfterDo(g, rs)

NextConc ==
  \/ \E g \in Goroutines : ConcRunCall(g)
  \/ \E g \in Goroutines : ConcCancelCtx(g)
  \/ \E g \in Goroutines : ConcDoFails(g)
  \/ \E g \in Goroutines : ConcDoReturns(g)

SpecConc == InitConc /\ [][NextConc]_vars

(***************************************************************************)
(* Properties                                                              *)
(***************************************************************************)
\* The step in which Run is called: pc leaves "build"; ctx' is the context
\* and resp' the destination it was called with.
RunIsCalled == pc = "build" /\ pc' # "build"

NoReaderRead == \A i \in 1..Len(readers) : readers[i].reads = 0 /\ ~readers[i].eof

\* C1: Run called with a context that is already done returns ctx.Err() and
\* hands no request to the HTTP client, whatever the Client's mode and
\* whatever the Request holds (files on a non-multipart Client included);
\* no file stream is read either.
C1_CancelledBeforeRun ==
  [][ (RunIsCalled /\ ctx' # "active")
        => /\ pc' = "done"
           /\ ret' = Err(IF ctx' = "canceled" THEN "context canceled"
                         ELSE "context deadline exceeded")
           /\ sent' = <<>>
           /\ readers' = readers ]_vars

C1_Witness ==
  /\ pc = "done"
  /\ ctx = "deadline"
  /\ Len(req.files) > 0
  /\ ~client.useMultipartForm
  /\ ret = Err("context deadline exceeded")
  /\ sent = <<>>

\* C2: Run called with a context that is not done, on a Client built without
\* UseMultipartForm, with a Request that has files, returns the
\* configuration error, hands no request to the HTTP client and reads no
\* file stream.
C2_FilesNeedMultipart ==
  [][ (RunIsCalled /\ ctx' = "active" /\ Len(req.files) > 0 /\ ~client.useMultipartForm)
        => /\ pc' = "done"
           /\ ret' = Err("cannot send files with PostFields option")
           /\ sent' = <<>>
           /\ readers' = readers
           /\ NoReaderRead' ]_vars

C2_Witness ==
  /\ pc = "done"
  /\ ctx = "active"
  /\ Len(req.files) = 2
  /\ ~client.useMultipartForm
  /\ ret = Err("cannot send files with PostFields option")
  /\ sent = <<>>
  /\ NoReaderRead

\* Run has returned after Do handed it a response whose body could be read.
ResponseHandled ==
  pc = "done" /\ res.err = "" /\ res.Body.kind \in {"invalid", "null", "object"}

\* The body is not JSON, or its data field has a JSON type that the (non-nil)
\* destination cannot take: Decode reports an error.
BodyUndecodable ==
  \/ res.Body.kind = "invalid"
  \/ res.Body.kind = "object" /\ res.Body.data = BadType /\ resp # NilResp

\* The body is a JSON object that decodes as the envelope.
EnvelopeDecoded == res.Body.kind = "object" /\ ~BodyUndecodable

DecodeFailures ==
  { "decoding response: invalid character 'I' looking for beginning of value",
    "decoding response: json: cannot unmarshal string into Go struct field graphResponse.Data of type struct { Value string }" }

\* C3: in both modes, when the response body cannot be decoded, Run returns
\* "graphql: server returned a non-200 status code: <code>" with the
\* response's code if the status is not 200, and the decode error
\* ("decoding response: <parse failure>") if the status is 200.
C3_DecodeFailureByStatus ==
  (ResponseHandled /\ BodyUndecodable)
    => /\ ret.kind = "error"
       /\ res.StatusCode = 400 =>
            ret.msg = "graphql: server returned a non-200 status code: 400"
       /\ res.StatusCode = 500 =>
            ret.msg = "graphql: server returned a non-200 status code: 500"
       /\ res.StatusCode = 200 => ret.msg \in DecodeFailures
       /\ res.StatusCode \in {200, 400, 500}

C3_Witness ==
  /\ ResponseHandled
  /\ client.useMultipartForm
  /\ res.Body.kind = "invalid"
  /\ res.StatusCode = 400
  /\ ret = Err("graphql: server returned a non-200 status code: 400")

\* C4: in both modes, when the envelope decodes and its errors sequence is
\* not empty, Run returns the error "graphql: " followed by the message of
\* the first entry, whatever the status code, the later entries and the
\* data field.
C4_FirstServerError ==
  (ResponseHandled /\ EnvelopeDecoded /\ Len(res.Body.errors.list) > 0)
    => ret = Err("graphql: " \o res.Body.errors.list[1].Message)

C4_Witness ==
  /\ ResponseHandled
  /\ res.StatusCode = 400
  /\ res.Body.data = "some data"
  /\ Len(res.Body.errors.list) = 2
  /\ res.Body.errors.list[2].Message = "worse"
  /\ ret = Err("graphql: bad")

PreconditionsPass ==
  /\ ctx' = "active"
  /\ ~(Len(req.files) > 0 /\ ~client.useMultipartForm)

\* Encoding the body of the Request succeeds: every variable can be encoded
\* as JSON and, on the multipart path, every file stream can be read.
BodyEncodes ==
  /\ \A k \in DOMAIN req.vars : req.vars[k] # Unencodable
  /\ client.useMultipartForm =>
       \A i \in 1..Len(req.files) : ~readers[req.files[i].R].broken

\* http.NewRequest accepts the endpoint (it parses as a URL).
EndpointParses == client.endpoint = "http://srv/graphql"

AtMostOnePost ==
  /\ Len(sent) <= 1
  /\ \A i \in 1..Len(sent) :
       /\ sent[i].Method = "POST"
       /\ sent[i].URL = client.endpoint
       /\ sent[i].via = client.httpClient

TransportFailureEndsRun ==
  (pc = "done" /\ res.err # "") => (ret = Err(res.err) /\ Len(sent) = 1)

\* C6 as claimed: every Run hands at most one POST for the endpoint to the
\* configured HTTP client, exactly one when the precondition checks and the
\* body encoding succeed, and a transport failure ends Run with that error
\* and without a second attempt.
C6_ExactlyOnePostAsClaimed ==
  [][ /\ AtMostOnePost'
      /\ TransportFailureEndsRun'
      /\ (RunIsCalled /\ PreconditionsPass /\ BodyEncodes) => Len(sent') = 1 ]_vars

\* C6 amended: exactly one POST when, besides the precondition checks and
\* the body encoding, http.NewRequest succeeds on the endpoint; none
\* otherwise.
C6_ExactlyOnePost ==
  [][ /\ AtMostOnePost'
      /\ TransportFailureEndsRun'
      /\ RunIsCalled =>
           IF PreconditionsPass /\ BodyEncodes /\ EndpointParses
           THEN Len(sent') = 1 /\ pc' = "inflight"
           ELSE Len(sent') = 0 /\ pc' = "done" /\ ret'.kind = "error" ]_vars

C6_Witness ==
  /\ pc = "done"
  /\ ctx = "canceled"
  /\ client.httpClient = "testClient"
  /\ Len(sent) = 1
  /\ sent[1].via = "testClient"
  /\ res.err = "Post \"http://srv/graphql\": context canceled"
  /\ ret = Err(res.err)

\* A request has been handed to Do: on the JSON path, on the multipart path.
SentJSON == Len(sent) > 0 /\ sent[1].Body.enc = "json"
SentMultipart == Len(sent) > 0 /\ sent[1].Body.enc = "multipart"
VarNeverCalled == DOMAIN varsSet = {}

\* C7: on the JSON path the body is {"query": q, "variables": V} with V null
\* if Var was never called on the Request, and otherwise the object of
\* exactly the names set, each with the last value written for it.
C7_JSONBody ==
  SentJSON =>
    /\ ~client.useMultipartForm
    /\ sent[1].Body.query = req.q
    /\ sent[1].Body.parts = <<>>
    /\ IF VarNeverCalled
       THEN sent[1].Body.variables.t = "null"
       ELSE /\ sent[1].Body.variables.t = "object"
            /\ sent[1].Body.variables.members = varsSet

C7_Witness ==
  /\ SentJSON
  /\ ncalls = 3
  /\ req.Header = EmptyHeader
  /\ sent[1].Body.variables.t = "object"
  /\ DOMAIN sent[1].Body.variables.members = {"username"}
  /\ sent[1].Body.variables.members["username"] = "matryer"

\* C8: on the multipart path the form holds the query field with the raw
\* query, then a variables field exactly if a variable was set, then one
\* file part per attachment in the order of the File calls, each with the
\* attachment's field name, file name and the whole content of its stream;
\* every stream has been read once, to its end, when Do is called.
C8_MultipartBody ==
  SentMultipart =>
    LET parts == sent[1].Body.parts
        off == IF VarNeverCalled THEN 1 ELSE 2
    IN  /\ client.useMultipartForm
        /\ Len(parts) = off + Len(req.files)
        /\ parts[1] = [ kind |-> "field", name |-> "query", filename |-> "",
                        raw |-> req.q, json |-> NoJSON ]
        /\ ~VarNeverCalled =>
             parts[2] = [ kind |-> "field", name |-> "variables", filename |-> "", raw |-> "",
                          json |-> [t |-> "object", members |-> varsSet] ]
        /\ \A i \in 1..Len(req.files) :
             parts[off + i] = [ kind |-> "file", name |-> req.files[i].Field,
                                filename |-> req.files[i].Name,
                                raw |-> readers[req.files[i].R].data, json |-> NoJSON ]
        /\ \A i \in 1..Len(readers) : readers[i].reads = 1 /\ readers[i].eof
        /\ Len(readers) = Len(req.files)

C8_Witness ==
  /\ SentMultipart
  /\ Len(sent[1].Body.parts) = 4
  /\ sent[1].Body.parts[2].name = "variables"
  /\ sent[1].Body.parts[3].name = "doc"
  /\ sent[1].Body.parts[4] = [ kind |-> "file", name |-> "file", filename |-> "filename.txt",
                               raw |-> "This is a file", json |-> NoJSON ]

TransportContentType ==
  IF client.useMultipartForm THEN "multipart/form-data; boundary=4f1c9a"
  ELSE "application/json; charset=utf-8"

\* C9: in both modes the outgoing request carries every value of the
\* Request's Header, after the values Run sets itself: Content-Type and
\* Accept keep the transport's value as their first value, also when the
\* caller's headers use these names.
C9_HeadersAdded ==
  Len(sent) > 0 =>
    LET h == sent[1].Header
        own == [k \in {"Content-Type", "Accept"} |->
                  IF k = "Accept" THEN <<"application/json; charset=utf-8">>
                  ELSE <<TransportContentType>>]
    IN  /\ DOMAIN h = DOMAIN own \cup DOMAIN req.Header
        /\ \A k \in DOMAIN h :
             h[k] = (IF k \in DOMAIN own THEN own[k] ELSE <<>>)
                    \o (IF k \in DOMAIN req.Header THEN req.Header[k] ELSE <<>>)

C9_Witness ==
  /\ SentMultipart
  /\ DOMAIN req.Header = {"Content-Type", "X-Custom-Header"}
  /\ sent[1].Header["Content-Type"] = <<"multipart/form-data; boundary=4f1c9a", "text/plain">>
  /\ sent[1].Header["X-Custom-Header"] = <<"123", "123">>
  /\ sent[1].Header["Accept"] = <<"application/json; charset=utf-8">>

\* The step in which Run returns a server error: Do has handed it a response
\* whose envelope decodes with a non-empty errors sequence.
ServerErrorReturned ==
  /\ pc = "inflight"
  /\ ResponseHandled'
  /\ EnvelopeDecoded'
  /\ Len(res'.Body.errors.list) > 0

\* C10 as claimed: with a non-empty errors sequence Run returns the first
\* server error and the destination is not populated from the data field.
C10_DataDiscardedAsClaimed ==
  [][ ServerErrorReturned
        => /\ ret' = Err("graphql: " \o res'.Body.errors.list[1].Message)
           /\ resp' = resp ]_vars

\* C10 amended: with a non-empty errors sequence Run returns the first
\* server error and never nil, but the data is not discarded: a non-nil
\* destination holds the data field that arrived with the errors; it is
\* left as it was only if it is nil or the data field is absent or null.
C10_ErrorReturnedDataWritten ==
  [][ ServerErrorReturned
        => /\ ret' = Err("graphql: " \o res'.Body.errors.list[1].Message)
           /\ resp' = IF resp # NilResp /\ res'.Body.data \notin {Absent, JNull}
                      THEN res'.Body.data ELSE resp ]_vars

C10_Witness ==
  /\ ResponseHandled
  /\ res.StatusCode = 200
  /\ res.Body.data = "some data"
  /\ Len(res.Body.errors.list) = 1
  /\ ret = Err("graphql: bad")
  /\ resp = "some data"

\* The readers as they were when the goroutine called Run.
RECURSIVE Unread(_)
Unread(rds) ==
  IF rds = <<>> THEN <<>>
  ELSE <<[Head(rds) EXCEPT !.reads = 0, !.eof = FALSE]>> \o Unread(Tail(rds))

\* The Run of goroutine g is, so far, what the same call does alone on the
\* Client as constructed: the same early return or the same request handed
\* to Do, the same reads of its file streams and, once Do has returned, the
\* same result and destination.
AsIfAlone(g) ==
  LET c == conc.call[g]
      c0 == conc.client0
      alone == Run(c0, c.cx0, c.req, Unread(c.readers))
      after == IF c0.useMultipartForm
               THEN runWithPostFieldsResponse(c.res, c.dest0)
               ELSE runWithJSONResponse(c.res, c.dest0)
  IN  c.pc # "ready" =>
        /\ c.readers = alone.readers
        /\ c.sent = IF alone.returned THEN <<>> ELSE <<alone.request>>
        /\ alone.returned =>
             c.pc = "done" /\ c.ret = Err(alone.err) /\ c.resp = c.dest0
        /\ (~alone.returned /\ c.pc = "inflight") =>
             c.ret = NotReturned /\ c.resp = c.dest0
        /\ (~alone.returned /\ c.pc = "done") =>
             c.ret = after.ret /\ c.resp = after.dest

FileCallOf(rd) == CHOOSE f \in FileArgs : f.data = rd.data /\ f.broken = rd.broken

\* What the accessors return, against the calls made on the Request so far.
BuilderState ==
  pc \in {"build", "inflight", "done"} =>
    /\ Query(req) \in Queries
    /\ req.varsNil = VarNeverCalled
    /\ Vars(req) = varsSet
    /\ Len(Files(req)) = Len(readers)
    /\ \A i \in 1..Len(readers) :
         Files(req)[i] = [ Field |-> FileCallOf(readers[i]).Field,
                           Name |-> FileCallOf(readers[i]).Name, R |-> i ]

\* A step in which a builder method is called. A File call brings a reader;
\* of the calls that bring none, only Var touches the variables.
BuilderCall == pc = "build" /\ ncalls' = ncalls + 1
FileCall == BuilderCall /\ Len(readers') = Len(readers) + 1
NoFileCall == BuilderCall /\ readers' = readers
VarsWritten == Vars(req') # Vars(req) \/ req'.varsNil # req.varsNil

BuilderStep ==
  /\ BuilderCall => Query(req') = Query(req)
  /\ FileCall =>
       /\ Vars(req') = Vars(req) /\ req'.varsNil = req.varsNil
       /\ \E f \in FileArgs :
            Files(req') = Files(req) \o <<[Field |-> f.Field, Name |-> f.Name, R |-> Len(readers')]>>
  /\ NoFileCall => Files(req') = Files(req)
  /\ (NoFileCall /\ VarsWritten) =>
       /\ ~req'.varsNil
       /\ \E k \in Keys, v \in Values :
            /\ DOMAIN Vars(req') = DOMAIN Vars(req) \cup {k}
            /\ Vars(req')[k] = v
            /\ \A x \in DOMAIN Vars(req) \ {k} : Vars(req')[x] = Vars(req)[x]

\* C12: after NewRequest(q) and any Var and File calls, Query() is q; Vars()
\* is nil if Var was never called and otherwise maps exactly the names set
\* to the value of the last Var call for each; Files() holds one attachment
\* per File call, in call order, with that call's field name, file name
\* and stream; Var leaves the files and File leaves the variables as they are.
C12_BuilderAccessors == []BuilderState /\ [][BuilderStep]_vars

C12_Witness ==
  /\ pc = "build"
  /\ ncalls = 3
  /\ req.Header = EmptyHeader
  /\ Query(req) = "mutation { upload }"
  /\ DOMAIN Vars(req) = {"id"} /\ Vars(req)["id"] = "x"
  /\ Len(Files(req)) = 2
  /\ Files(req)[1] = [Field |-> "doc", Name |-> "b.bin", R |-> 1]
  /\ Files(req)[2] = [Field |-> "file", Name |-> "filename.txt", R |-> 2]
====
